---- MODULE Spec2Model ----
(***************************************************************************)
(* Model of hugelkultur_streamlit_app.py: land-cover placement, SCS-CN     *)
(* setup and runoff, D8 routing (route_d8) and the two simulation modes.   *)
(*                                                                         *)
(* Water amounts are exact fixed-point integers.  One unit is              *)
(* 1/(QRes*WaterScale) mm, WaterScale = 25^3, so that the 0.88 / 0.12      *)
(* split (22/25 and 3/25) of route_d8 is exact through three sweeps.       *)
(*                                                                         *)
(* An intermediate value that is used more than once is bound by           *)
(*   CHOOSE r \in {e(v) : v \in {value}} : TRUE                            *)
(* which is e(value): TLC evaluates a bound variable once, where it        *)
(* re-evaluates a LET or an operator argument at every use in a state      *)
(* predicate.                                                              *)
(***************************************************************************)
EXTENDS Integers, Sequences, FiniteSets

\* ------------------------------------------------------------------ bounds
\* The grid has H rows and three columns (the sliders of lines 29-30 give
\* 60..160 rows and 80..200 columns; the model explores small grids).
H == 2
Cols == {0, 1, 2}
W == Cardinality(Cols)

\* elevation levels: three are enough for "lower", "lowest" and ties
Elevations == {0, 1, 2}

\* 25^3: amounts that are multiples of it split exactly for three sweeps
WaterScale == 25 * 25 * 25

Cells == (0 .. (H - 1)) \X Cols

\* flat index of a cell, as numpy's ravel() numbers it
Flat(x) == x[1] * W + x[2]

\* the cells in the order of "for r in range(H): for c in range(W)"
CellSeq == [k \in 1 .. (H * W) |-> <<(k - 1) \div W, (k - 1) % W>>]

\* the sum of g over the cells CellSeq[k..] that lie in cs
RECURSIVE SumFrom(_, _, _)
SumFrom(g, cs, k) ==
  IF k > H * W THEN 0
  ELSE (IF CellSeq[k] \in cs THEN g[CellSeq[k]] ELSE 0) + SumFrom(g, cs, k + 1)

SumOver(g, cs) == CHOOSE r \in {SumFrom(g, c, 1) : c \in {cs}} : TRUE

Total(g) == SumOver(g, Cells)

Zeros == [x \in Cells |-> 0]

\* cells sorted by descending (score, flat index):
\* np.argsort(score.ravel())[::-1], ties as numpy's sort of a short array
\* (insertion sort, stable) leaves them
RevCellSeq == [k \in 1 .. (H * W) |-> CellSeq[H * W + 1 - k]]

RECURSIVE RankFrom(_, _)
RankFrom(score, levels) ==
  IF levels = {} THEN <<>>
  ELSE LET m == CHOOSE v \in levels : \A u \in levels : u <= v
       IN SelectSeq(RevCellSeq, LAMBDA x : score[x] = m)
            \o RankFrom(score, levels \ {m})

Rank(score) == RankFrom(score, {score[x] : x \in Cells})

\* ------------------------------------------------------------- route_d8
\* (dr, dc) in the order of "for dr in (-1,0,1): for dc in (-1,0,1)"
Offsets == << <<-1, -1>>, <<-1, 0>>, <<-1, 1>>,
              <<0, -1>>,  <<0, 0>>,  <<0, 1>>,
              <<1, -1>>,  <<1, 0>>,  <<1, 1>> >>

InGrid(rr, cc) == 0 <= rr /\ rr < H /\ 0 <= cc /\ cc < W

\* "if z < zmin"
LowerMutLE(z, zmin) == z <= zmin
Lower(z, zmin) == z < zmin

RECURSIVE Scan(_, _, _, _)
Scan(el, cell, k, best) ==
  IF k > Len(Offsets) THEN best
  ELSE CHOOSE r \in
         {Scan(el, cell, k1,
               IF InGrid(rr, cc) /\ Lower(el[<<rr, cc>>], el[best])
               THEN <<rr, cc>> ELSE best) :
            k1 \in {k + 1},
            rr \in {cell[1] + Offsets[k][1]},
            cc \in {cell[2] + Offsets[k][2]}} : TRUE

\* (rmin, cmin) after the neighbour scan of cell
Lowest(el, cell) == Scan(el, cell, 1, cell)

\* acc[r, c] * 0.88  (0.88 = 22/25, rounded down, without overflow)
FlowsMut85(x) == (x \div 20) * 17 + ((x % 20) * 17) \div 20
Flows(x) == (x \div 25) * 22 + ((x % 25) * 22) \div 25

\* acc[r, c] *= 0.12  (0.12 = 3/25)
PondsMut15(x) == (x \div 20) * 3 + ((x % 20) * 3) \div 20
Ponds(x) == (x \div 25) * 3 + ((x % 25) * 3) \div 25

\* the body of "for c in range(W)" for one cell; st = [acc, moved]
VisitMutUnbuffered(st, el, cell) ==
  LET t == Lowest(el, cell)
  IN IF t # cell
     THEN [acc |-> [st.acc EXCEPT ![t] = @ + Flows(st.acc[cell]),
                                  ![cell] = Ponds(@)],
           moved |-> st.moved]
     ELSE st
Visit(st, el, cell) ==
  LET t == Lowest(el, cell)
  IN IF t # cell
     THEN [acc |-> [st.acc EXCEPT ![cell] = Ponds(@)],
           moved |-> [st.moved EXCEPT ![t] = @ + Flows(st.acc[cell])]]
     ELSE st

\* the cell loops of one sweep, visiting the cells in the order of seq
RECURSIVE VisitAll(_, _, _, _)
VisitAll(st, el, seq, k) ==
  IF k > Len(seq) THEN st
  ELSE CHOOSE r \in {VisitAll(s1, el, seq, k + 1) :
                       s1 \in {Visit(st, el, seq[k])}} : TRUE

\* one pass of "for _ in range(iters)" visiting the cells in the order of
\* seq: [acc, moved] before "acc += moved"
SweepCellsIn(a, el, seq) ==
  CHOOSE r \in {VisitAll(s0, el, seq, 1) :
                  s0 \in {[acc |-> a, moved |-> Zeros]}} : TRUE

SweepCells(a, el) == SweepCellsIn(a, el, CellSeq)

\* "acc += moved"
ApplyMoved(st) == [x \in Cells |-> st.acc[x] + st.moved[x]]

RouteSweep(a, el) ==
  CHOOSE r \in {ApplyMoved(st) : st \in {SweepCells(a, el)}} : TRUE

RECURSIVE route_d8(_, _, _)
route_d8(Q_mm, el, n) ==
  IF n = 0 THEN Q_mm
  ELSE CHOOSE r \in {route_d8(a, el, n - 1) :
                       a \in {RouteSweep(Q_mm, el)}} : TRUE

\* iters at the two call sites of route_d8
FullStormIters == 3
AnimateIters == 1

\* -------------------------------------------------- land cover placement
\* Scores are the normalised scores of lines 158 and 180 in percent.
ScoreLevels == {0, 100}
ForestLevels == {0, 100}

\* "(score - score.min()) / (score.ptp() + 1e-9)": the minimum is 0 and,
\* unless all cells are equal, the maximum is (just below) 1
Normalised(s) ==
  /\ \E x \in Cells : s[x] = 0
  /\ (\A x \in Cells : s[x] = 0) \/ (\E x \in Cells : s[x] = 100)

\* "settlement_score[rr, cc] > 0.55"
ScoreThreshold == 55

\* slider values (percent) and the spec's oversubscribed 50 % + 90 %
BuildShares == {5, 35, 50}
ForestShares == {40, 90}

\* int(W*H*share)
TargetOf(share) == (W * H * share) \div 100

\* road_mask: the main road spans every column (place_roads, lines 121-126)
\* and a spur may drop from it down one column (lines 128-141)
MainRoad(r0) == {x \in Cells : x[1] = r0}
Spur(r0, c0) == {x \in Cells : x[2] = c0 /\ x[1] >= r0}
RoadLayouts ==
  {MainRoad(r0) : r0 \in 0 .. (H - 1)}
    \cup {MainRoad(r0) \cup Spur(r0, c0) : r0 \in 0 .. (H - 1), c0 \in Cols}

\* the cells of [max(0,r-1):min(H,r+2), max(0,c-1):min(W,c+2)]
Block(x) ==
  {y \in Cells : /\ x[1] - 1 <= y[1] /\ y[1] <= x[1] + 1
                 /\ x[2] - 1 <= y[2] /\ y[2] <= x[2] + 1}

\* "for r, c in idx:" of the building placement
RECURSIVE BuildLoop(_, _, _, _, _)
BuildLoop(score, rank, k, bld, target) ==
  IF k > Len(rank) \/ target <= 0 THEN bld
  ELSE LET blk == Block(rank[k])
           add == {y \in blk : y \notin bld /\ score[y] > ScoreThreshold}
       IN IF add # {}
          THEN BuildLoop(score, rank, k + 1, bld \cup blk,
                         target - Cardinality(add))
          ELSE BuildLoop(score, rank, k + 1, bld, target)

PlaceBuildingsOf(score, target) == BuildLoop(score, Rank(score), 1, {}, target)

\* "if not buildings[r, c] and not road_mask[r, c]"
FreeMutNoSkip(x, bld, road) == TRUE
Free(x, bld, road) == x \notin bld /\ x \notin road

\* "for r, c in idx2:" of the forest placement
RECURSIVE ForestLoop(_, _, _, _, _, _)
ForestLoop(rank, k, fst, target, bld, road) ==
  IF k > Len(rank) \/ Cardinality(fst) >= target THEN fst
  ELSE IF Free(rank[k], bld, road)
       THEN ForestLoop(rank, k + 1, fst \cup {rank[k]}, target, bld, road)
       ELSE ForestLoop(rank, k + 1, fst, target, bld, road)

PlaceForestOf(fscore, target, bld, road) ==
  ForestLoop(Rank(fscore), 1, {}, target, bld, road)

\* "ground = ~(forest | buildings | road_mask)"
GroundOf(fst, bld, road) == Cells \ (fst \cup bld \cup road)

\* world: 1 everywhere, then world[forest] = 0, then world[built] = 2
WorldOf(fst, bld, road) ==
  LET w0 == [x \in Cells |-> 1]
      w1 == [x \in Cells |-> IF x \in fst THEN 0 ELSE w0[x]]
  IN [x \in Cells |-> IF x \in bld \cup road THEN 2 ELSE w1[x]]

\* ------------------------------------------------------------ SCS-CN setup
Forest == 0
Ground == 1
Built == 2

\* CN_base (AMC II)
CN_base(k) == IF k = Forest THEN 60 ELSE IF k = Ground THEN 78 ELSE 95

SoilStates == {"Dry", "Average", "Wet"}

moisture_adj(soil) ==
  IF soil = "Dry" THEN 0 - 5 ELSE IF soil = "Wet" THEN 5 ELSE 0

\* np.clip(x, lo, hi)
ClipMutNone(x, lo, hi) == x
Clip(x, lo, hi) == IF x < lo THEN lo ELSE IF x > hi THEN hi ELSE x

\* CN[world == k] = v + moisture_adj[soil_state]; CN = np.clip(CN, 30, 98)
DeriveCN(w, soil) ==
  [x \in Cells |-> Clip(CN_base(w[x]) + moisture_adj(soil), 30, 98)]

\* S = 25400/CN - 254 is the fraction SNum(cn) / cn
SNum(cn) == 25400 - 254 * cn

\* runoff is kept in 1/QRes mm
QRes == 10

\* scs_runoff for P in whole mm, in 1/QRes mm rounded down.
\* Ia = 0.2*S = SNum/(5 cn), ex = P - Ia = exN/(5 cn),
\* Q = ex^2/(ex + S) = exN^2 / (5 cn (exN + 5 SNum))
scs_runoff(P, cn) ==
  LET exN == 5 * cn * P - SNum(cn)
      den == 5 * cn * (exN + 5 * SNum(cn))
      sq == exN * exN
  IN IF exN > 0
     THEN (sq \div den) * QRes + ((sq % den) * QRes) \div den
     ELSE 0

\* the per-cell runoff grid of a rainfall depth, in water units
RunoffGrid(P, cn) == [x \in Cells |-> scs_runoff(P, cn[x]) * WaterScale]

\* --------------------------------------------------------------- simulation
\* storm depths (mm) and animation step counts tried; each step's share of
\* the storm is a whole number of mm for these
Storms == {0, 30, 60}
StepChoices == {2, 3, 4}

\* series = np.linspace(0, storm_mm, num=max(1, steps)); series[k-1]
Series(storm, n, k) == IF n <= 1 THEN 0 ELSE (storm * (k - 1)) \div (n - 1)

\* "pond += routed"
AccumulateMutReplace(p, routed) == routed
Accumulate(p, routed) == [x \in Cells |-> p[x] + routed[x]]

\* the grid handed to draw_frame in the animate loop
FrameMutRouted(p, routed) == routed
Frame(p, routed) == p

\* terrains tried in the simulation: flat, the southward slope of
\* build_terrain (top high, bottom low), one lowered corner
Flat0 == [x \in Cells |-> 0]
SouthSlope == [x \in Cells |-> (H - 1) - x[1]]
CornerPit == [x \in Cells |-> IF x = <<H - 1, W - 1>> THEN 0 ELSE 1]
Terrains == {Flat0, SouthSlope, CornerPit}

\* land covers tried in the simulation: a road layout, with no forest, with
\* forest on the even columns off the road, or with forest everywhere else
WorldSamples ==
  {WorldOf(fst, {}, road) :
     fst \in {{}, {x \in Cells : x[2] % 2 = 0}, Cells}, road \in RoadLayouts}

\* -------------------------------------------------------------------- state
VARIABLES
  pc,            \* position in the script / in route_d8
  elev,          \* elevation grid
  acc, moved,    \* route_d8's acc and moved
  q0,            \* route_d8's argument Q_mm
  pre,           \* acc at the start of the last sweep
  it,            \* sweeps done
  order,         \* the visiting order the last sweep used
  road_mask, buildings, forest, ground, world,
  build_share, forest_share,
  soil_state, CN,
  storm_mm, steps, prev, inc, Q, pond, i,
  pondPrev,      \* pond before the last step
  frames         \* the grids handed to draw_frame, in order

routeVars == <<acc, moved, q0, pre, it, order>>
landVars == <<road_mask, buildings, forest, ground, build_share, forest_share>>
simVars == <<soil_state, CN, storm_mm, steps, prev, inc, Q, pond, i,
             pondPrev, frames>>
vars == <<pc, elev, world, routeVars, landVars, simVars>>

NoRoute ==
  /\ acc = Zeros /\ moved = Zeros /\ q0 = Zeros /\ pre = Zeros
  /\ it = 0 /\ order = "none"

NoLand ==
  /\ road_mask = {} /\ buildings = {} /\ forest = {} /\ ground = {}
  /\ build_share = 0 /\ forest_share = 0

NoSim ==
  /\ soil_state = "Average" /\ CN = Zeros
  /\ storm_mm = 0 /\ steps = 0 /\ prev = 0 /\ inc = 0
  /\ Q = Zeros /\ pond = Zeros /\ i = 0 /\ pondPrev = Zeros
  /\ frames = <<>>

\* ------------------------------------------------- SpecRoute: route_d8
\* inputs Q_mm: no runoff, the same runoff everywhere, a different amount
\* in every cell
RampGrid == [x \in Cells |-> (Flat(x) + 1) * WaterScale]

WaterGrids ==
  { [x \in Cells |-> 0],
    [x \in Cells |-> WaterScale],
    RampGrid }

\* every terrain with the ramp of runoff, the sample terrains with the
\* other inputs
InitRoute ==
  /\ pc = "route"
  /\ elev \in [Cells -> Elevations]
  /\ q0 \in WaterGrids
  /\ q0 # RampGrid => elev \in Terrains
  /\ acc = q0
  /\ moved = Zeros
  /\ pre = q0
  /\ it = 0
  /\ order = "none"
  /\ world = [x \in Cells |-> Ground]
  /\ NoLand /\ NoSim

\* one pass of "for _ in range(iters)"; after the last one, "return acc"
Sweep ==
  /\ pc = "route"
  /\ it < FullStormIters
  /\ \E st \in {SweepCells(acc, elev)} :
       /\ moved' = st.moved
       /\ acc' = ApplyMoved(st)
  /\ pre' = acc
  /\ it' = it + 1
  /\ order' = "rowmajor"
  /\ pc' = IF it' = FullStormIters THEN "done" ELSE "route"
  /\ UNCHANGED <<elev, world, q0, landVars, simVars>>

NextRoute == Sweep

SpecRoute == InitRoute /\ [][NextRoute]_vars

\* --------------------------- SpecOrder: one sweep in other visiting orders
Reverse(seq) == [k \in 1 .. Len(seq) |-> seq[Len(seq) + 1 - k]]
ColMajor == [k \in 1 .. (H * W) |-> <<(k - 1) % H, (k - 1) \div H>>]
HighestFirst(el) == Rank(el)

OrderOf(name, el) ==
  IF name = "reversed" THEN Reverse(CellSeq)
  ELSE IF name = "colmajor" THEN ColMajor
  ELSE IF name = "highest" THEN HighestFirst(el)
  ELSE Reverse(HighestFirst(el))

OrderNames == {"reversed", "colmajor", "highest", "lowest"}

SweepInOrder(name) ==
  /\ pc = "route"
  /\ it = 0
  /\ \E st \in {SweepCellsIn(acc, elev, OrderOf(name, elev))} :
       /\ moved' = st.moved
       /\ acc' = ApplyMoved(st)
  /\ pre' = acc
  /\ it' = 1
  /\ order' = name
  /\ pc' = "done"
  /\ UNCHANGED <<elev, world, q0, landVars, simVars>>

NextOrder == \E name \in OrderNames : SweepInOrder(name)

SpecOrder == InitRoute /\ [][NextOrder]_vars

\* ------------------------------------------- SpecLand: land cover placement
InitLand ==
  /\ pc = "buildings"
  /\ road_mask \in RoadLayouts
  /\ build_share \in BuildShares
  /\ forest_share \in ForestShares
  /\ buildings = {}
  /\ forest = {}
  /\ ground = {}
  /\ world = [x \in Cells |-> Ground]
  /\ elev = Flat0
  /\ NoRoute /\ NoSim

\* lines 160-172
PlaceBuildings ==
  /\ pc = "buildings"
  /\ \E score \in {s \in [Cells -> ScoreLevels] : Normalised(s)} :
       buildings' = PlaceBuildingsOf(score, TargetOf(build_share))
  /\ pc' = "forest"
  /\ UNCHANGED <<elev, world, routeVars, road_mask, forest, ground,
                 build_share, forest_share, simVars>>

\* lines 182-191
PlaceForest ==
  /\ pc = "forest"
  /\ \E fscore \in {s \in [Cells -> ForestLevels] : Normalised(s)} :
       forest' = PlaceForestOf(fscore, TargetOf(forest_share),
                               buildings, road_mask)
  /\ pc' = "world"
  /\ UNCHANGED <<elev, world, routeVars, road_mask, buildings, ground,
                 build_share, forest_share, simVars>>

\* lines 193-199
MakeWorld ==
  /\ pc = "world"
  /\ ground' = GroundOf(forest, buildings, road_mask)
  /\ world' = WorldOf(forest, buildings, road_mask)
  /\ pc' = "classified"
  /\ UNCHANGED <<elev, routeVars, road_mask, buildings, forest,
                 build_share, forest_share, simVars>>

NextLand == PlaceBuildings \/ PlaceForest \/ MakeWorld

SpecLand == InitLand /\ [][NextLand]_vars

\* ------------------------------------------------ Spec: the two simulations
\* the state when the script reaches the buttons (line 313-315)
Init ==
  /\ pc = "idle"
  /\ elev \in Terrains
  /\ world \in WorldSamples
  /\ soil_state \in SoilStates
  /\ CN = DeriveCN(world, soil_state)
  /\ storm_mm \in Storms
  /\ steps \in StepChoices
  /\ prev = 0
  /\ inc = 0
  /\ Q = Zeros
  /\ pond = Zeros
  /\ pondPrev = Zeros
  /\ i = 0
  /\ frames = <<>>
  /\ NoRoute /\ NoLand

\* "if run_once:" (lines 317-327)
RunOnce ==
  /\ pc = "idle"
  /\ inc' = storm_mm
  /\ Q' = RunoffGrid(storm_mm, CN)
  /\ pond' = route_d8(Q', elev, FullStormIters)
  /\ frames' = Append(frames, pond')
  /\ pc' = "full"
  /\ UNCHANGED <<elev, world, routeVars, landVars, soil_state, CN,
                 storm_mm, steps, prev, i, pondPrev>>

\* "elif animate:" up to the loop (lines 329-336)
Animate ==
  /\ pc = "idle"
  /\ pond' = Zeros
  /\ i' = 1
  /\ pc' = "physics"
  /\ UNCHANGED <<elev, world, routeVars, landVars, soil_state, CN,
                 storm_mm, steps, prev, inc, Q, pondPrev, frames>>

\* one loop iteration up to "pond += routed" (lines 338-344)
StepPhysics ==
  /\ pc = "physics"
  /\ i <= steps
  /\ LET total == Series(storm_mm, steps, i)
     IN /\ inc' = total - prev
        /\ prev' = total
  /\ Q' = RunoffGrid(inc', CN)
  /\ pondPrev' = pond
  /\ pond' = Accumulate(pond, route_d8(Q', elev, AnimateIters))
  /\ pc' = "draw"
  /\ UNCHANGED <<elev, world, routeVars, landVars, soil_state, CN,
                 storm_mm, steps, i, frames>>

\* the rest of the iteration: draw_frame, progress, sleep (lines 346-357)
StepDraw ==
  /\ pc = "draw"
  /\ frames' = Append(frames, Frame(pond, route_d8(Q, elev, AnimateIters)))
  /\ i' = i + 1
  /\ pc' = IF i = steps THEN "animated" ELSE "physics"
  /\ UNCHANGED <<elev, world, routeVars, landVars, soil_state, CN,
                 storm_mm, steps, prev, inc, Q, pond, pondPrev>>

\* "else:" (lines 361-363)
NoStorm ==
  /\ pc = "idle"
  /\ frames' = Append(frames, pond)
  /\ pc' = "shown"
  /\ UNCHANGED <<elev, world, routeVars, landVars, soil_state, CN,
                 storm_mm, steps, prev, inc, Q, pond, i, pondPrev>>

\* the Streamlit runtime stops the script (a rerun or stop request) at one
\* of the loop's st.* calls: before the frame of this step is drawn, or at
\* progress.progress after it
Stop ==
  /\ pc \in {"physics", "draw"}
  /\ pc' = "cancelled"
  /\ UNCHANGED <<elev, world, routeVars, landVars, simVars>>

Next == RunOnce \/ Animate \/ StepPhysics \/ StepDraw \/ NoStorm \/ Stop

Spec == Init /\ [][Next]_vars

\* ================================================================== claims
Max(a, b) == IF a >= b THEN a ELSE b

\* the 8 neighbours of a cell that lie in the grid
Nbrs(x) == Block(x) \ {x}

HasLower(x) == \E y \in Nbrs(x) : elev[y] < elev[x]

\* what each cell kept in place in the last sweep (acc before "acc += moved")
Retained == [x \in Cells |-> acc[x] - moved[x]]

\* the cells that sent their flow to x in the last sweep
SendersTo(x) == {y \in Cells : HasLower(y) /\ Lowest(elev, y) = x}

IsFlat == \A x, y \in Cells : elev[x] = elev[y]

\* C1: after each sweep of route_d8, the water moved to neighbours plus the
\* water retained in place equals the water before the sweep, and the grid
\* total stays that of the input: nothing is created or lost.
C1_Conservation ==
  it > 0 =>
    /\ \E kept \in {Retained} : Total(moved) + Total(kept) = Total(pre)
    /\ Total(acc) = Total(q0)

\* a sweep that moved water while a local minimum held some
C1_Witness ==
  /\ it > 0
  /\ Total(moved) > 0
  /\ \E x \in Cells : ~HasLower(x) /\ pre[x] > 0

\* C2: the grid a sweep produces is the same for every order in which the
\* cells are visited: it is the grid of the row-major sweep.
C2_OrderIndependent ==
  pc = "done" => acc = RouteSweep(pre, elev)

\* a sweep, lowest cells first, in which a cell that receives water from a
\* higher neighbour also sends water on
C2_Witness ==
  /\ pc = "done"
  /\ order = "lowest"
  /\ \E x \in Cells :
       /\ HasLower(x) /\ pre[x] > 0
       /\ HasLower(Lowest(elev, x)) /\ pre[Lowest(elev, x)] > 0

\* C4 as stated, with the spec's flow_fraction = 0.85: after a pass every
\* cell with a strictly lower neighbour retains exactly 15 % of its water.
C4_Retains15Percent ==
  it > 0 =>
    \A x \in Cells : HasLower(x) => 100 * (acc[x] - moved[x]) = 15 * pre[x]

\* C4 (amended): the fraction is fixed at 0.88.  After a pass every cell
\* with a strictly lower neighbour retains 12 % of its pre-pass water and
\* has sent 88 % to a lowest neighbour; every cell received 88 % of the
\* water of the cells that sent to it.
C4_FlowFraction88 ==
  it > 0 =>
    \E sent \in {{<<y, Lowest(elev, y)>> : y \in {c \in Cells : HasLower(c)}}} :
      /\ \A p \in sent :
           /\ 25 * (acc[p[1]] - moved[p[1]]) = 3 * pre[p[1]]
           /\ p[2] \in Nbrs(p[1])
           /\ \A y \in Nbrs(p[1]) : elev[p[2]] <= elev[y]
      /\ \A x \in Cells :
           25 * moved[x]
             = 22 * SumOver(pre, {p[1] : p \in {q \in sent : q[2] = x}})

\* one pass over the terrain with a single lowered corner and the same
\* runoff everywhere: the corner's three neighbours have sent it their flow
C4_Witness ==
  /\ it = 1
  /\ elev = CornerPit
  /\ \A x \in Cells : pre[x] = WaterScale
  /\ SendersTo(<<H - 1, W - 1>>) = Nbrs(<<H - 1, W - 1>>)
  /\ 25 * moved[<<H - 1, W - 1>>] = 22 * 3 * WaterScale

\* C5: a cell with no strictly lower neighbour (ties included) keeps all its
\* water in a sweep; on equal elevations route_d8 returns its input.
C5_LocalMinimumKeeps ==
  it > 0 =>
    /\ \A x \in Cells : ~HasLower(x) => acc[x] - moved[x] = pre[x]
    /\ IsFlat => (acc = q0 /\ moved = Zeros)

\* three sweeps over a flat terrain holding water, returned
C5_Witness ==
  /\ pc = "done"
  /\ it = FullStormIters
  /\ IsFlat
  /\ \A x \in Cells : q0[x] > 0

\* C6 as stated: after classification the cells that building placement
\* marked are no more than the target int(H*W*built_fraction).
C6_BuiltWithinTarget ==
  pc = "classified" => Cardinality(buildings) <= TargetOf(build_share)

\* C7: after classification the masks forest, ground and built
\* (buildings or road) partition the grid, world gives each cell the
\* category of its mask, and no building or road cell is forest.
C7_Partition ==
  pc = "classified" =>
    LET built == buildings \cup road_mask
    IN /\ forest \cap built = {}
       /\ \A x \in Cells :
            /\ world[x] \in {Forest, Ground, Built}
            /\ world[x] = Built <=> x \in built
            /\ world[x] = Forest <=> x \in forest
            /\ world[x] = Ground <=> x \in ground
            /\ (x \notin forest /\ x \notin built) => world[x] = Ground
       /\ Cardinality(forest) + Cardinality(ground) + Cardinality(built)
            = H * W

\* an oversubscribed request: buildings and forest were both placed and the
\* forest stopped below its target
C7_Witness ==
  /\ pc = "classified"
  /\ build_share + forest_share > 100
  /\ buildings # {}
  /\ forest # {}
  /\ Cardinality(forest) < TargetOf(forest_share)

AnimatePcs == {"physics", "draw", "animated", "cancelled"}

\* the rainfall increment of step k of the animation
IncOf(k) ==
  Series(storm_mm, steps, k)
    - (IF k = 1 THEN 0 ELSE Series(storm_mm, steps, k - 1))

\* the accumulator after k whole steps of the animation, from all zeros
RECURSIVE PondAfter(_)
PondAfter(k) ==
  IF k = 0 THEN Zeros
  ELSE CHOOSE g \in {[x \in Cells |-> p[x] + r[x]] :
                       p \in {PondAfter(k - 1)},
                       r \in {RouteSweep(RunoffGrid(IncOf(k), CN), elev)}}
         : TRUE

\* C3 as stated: in every step of an animated run the runoff emitted for a
\* cell is max(Q(P_new) - Q(P_prev), 0), Q taken of the cumulative rainfall
\* before and after the step.
C3_RunoffOfCumulativeRain ==
  pc = "draw" =>
    \E Qcurr \in {RunoffGrid(prev, CN)},
       Qprev \in {RunoffGrid(prev - inc, CN)} :
       \A x \in Cells : Q[x] = Max(Qcurr[x] - Qprev[x], 0)

\* the CN of the code's table for a cover and a moisture state
ExpectedCN(k, soil) ==
  IF k = Forest
  THEN (IF soil = "Dry" THEN 55 ELSE IF soil = "Average" THEN 60 ELSE 65)
  ELSE IF k = Ground
  THEN (IF soil = "Dry" THEN 73 ELSE IF soil = "Average" THEN 78 ELSE 83)
  ELSE (IF soil = "Dry" THEN 90 ELSE IF soil = "Average" THEN 95 ELSE 98)

\* C8: every cell's CN is its cover's baseline plus the moisture adjustment
\* clipped into [30, 98]; Built with Wet gives 98; S = 25400/CN - 254 has a
\* non-zero denominator and is not negative.
C8_CurveNumberClipped ==
  \A x \in Cells :
    /\ 30 <= CN[x] /\ CN[x] <= 98
    /\ CN[x] = ExpectedCN(world[x], soil_state)
    /\ (world[x] = Built /\ soil_state = "Wet") => CN[x] = 98
    /\ CN[x] # 0
    /\ SNum(CN[x]) >= 0

\* a wet run over a grid with a built cell, its runoff computed from CN 98
C8_Witness ==
  /\ pc = "full"
  /\ soil_state = "Wet"
  /\ storm_mm > 0
  /\ \E x \in Cells :
       world[x] = Built /\ CN[x] = 98 /\ inc = storm_mm
         /\ Q[x] = scs_runoff(storm_mm, 98) * WaterScale

\* C9: in an animated run pond starts at zero, is never negative and never
\* below its value after the previous step, and each step adds that step's
\* routed runoff to it.
C9_PondAccumulates ==
  pc \in AnimatePcs =>
    \E routed \in {RouteSweep(Q, elev)} :
       \A x \in Cells :
         /\ pondPrev[x] >= 0
         /\ pond[x] >= pondPrev[x]
         /\ pond[x] = pondPrev[x] + routed[x]

\* a step that added runoff to a cell that already held water
C9_Witness ==
  /\ pc = "draw"
  /\ i >= 2
  /\ \E x \in Cells : pondPrev[x] > 0 /\ pond[x] > pondPrev[x]

\* C10: in an animated run one grid has been published per completed step,
\* the k-th published grid is the accumulator after k whole steps, and a
\* stopped run leaves the grid of its last completed step as the last one.
C10_PublishedAtStepBoundary ==
  pc \in AnimatePcs =>
    /\ Len(frames) = i - 1
    /\ Len(frames) <= steps
    /\ \A k \in 1 .. Len(frames) : frames[k] = PondAfter(k)

\* a run stopped after the physics of a step: the accumulator has moved on,
\* the last published grid is that of the step before
C10_Witness ==
  /\ pc = "cancelled"
  /\ Len(frames) >= 2
  /\ pond # frames[Len(frames)]
  /\ frames[Len(frames)] # frames[Len(frames) - 1]

====
